---- MODULE Spec2Model ----
(***************************************************************************)
(* Model of the scholar front end: the QA session hook and page, the       *)
(* highlight colour function, the highlight manager and the plain-text     *)
(* document viewer, the upload hook with its retry policy, and the PDF     *)
(* highlight correlators.                                                  *)
(*                                                                         *)
(* Each subsystem has its own specification over the shared variables:     *)
(*   SessionSpec  useQASession + QAPage + ChatInput + SessionHistory       *)
(*   ColorSpec    getHighlightColorBySourceId                              *)
(*   ManagerSpec  useHighlightManager on its own                           *)
(*   ViewerSpec   useHighlightManager + DocumentViewer                     *)
(*   RetrySpec    useFileUpload + useRetry                                 *)
(*   RetryFairSpec  RetrySpec with requests that settle, timers that fire  *)
(*   PdfSpec      createHighlightsFromSourceReferences,                    *)
(*                createHighlightsFromPyMuPDFData, getPageForPosition      *)
(***************************************************************************)
EXTENDS Bags, FiniteSets, Integers, Sequences, TLC

VARIABLES
    \* ---- QA session (useQASession, QAPage) ----
    sessionState,       \* useQASession state: session, isLoading, error, isCreating, isAsking
    fileId,             \* QAPage fileId state ("" when unset)
    isInitializing,     \* QAPage isInitializing state
    sessionCreatedRef,  \* QAPage sessionCreatedRef.current
    uploadedFile,       \* localStorage "uploadedFile" ("" when absent)
    showHistory,        \* QAPage showHistory state
    historySessions,    \* useSessionHistory sessions (ids)
    pageMounted,        \* the QA page is mounted (FALSE after navigating away)
    srv,                \* server-side session registry
    procs,              \* bag of requests in flight, each with its continuation
    rejected,           \* history: askQuestion calls that rejected
    askCount,           \* number of askQuestion calls issued
    \* ---- colour function ----
    colorInput,         \* [sourceId, totalSources] handed to getHighlightColorBySourceId
    colorOutput,        \* its result ("" before the call)
    \* ---- highlight manager and document viewer ----
    highlights,         \* useHighlightManager highlights
    highlightedSourceIds, \* useHighlightManager highlightedSourceIds
    documentContent,    \* DocumentViewer documentContent (full_text or NoDoc)
    currentPage,        \* DocumentViewer currentPage
    itemsPerPage,       \* DocumentViewer itemsPerPage
    showHighlights,     \* DocumentViewer showHighlights
    lastClicked,        \* history: what the last click did ("add", "remove", "ignored",
                        \* "jump", "span"), "none" after any other step
    \* ---- upload and retry ----
    retryConfig,        \* useRetry config: maxAttempts, baseDelay, maxDelay, backoffMultiplier
    retryPc,            \* position of retry(): idle, calling, waiting, succeeded, failed
    attempt,            \* loop variable of retry()
    retryState,         \* useRetry retryState: attempts, isRetrying, hasError
    uploadInput,        \* [fileType, studyMode] of the upload
    uploadState,        \* useFileUpload state
    uploadRequests,     \* number of upload requests sent
    lastFailure,        \* kind of the last upload failure ("" if none)
    waits,              \* sequence of backoff delays inserted so far
    \* ---- paged (PDF) correlation ----
    documentStructure,  \* document_structure of the loaded document: its page table
    pdfSources,         \* the source references handed to the PDF correlator
    pdfResult           \* the last call of the correlator or of the lookup, with its result

sessionVars == <<sessionState, fileId, isInitializing, sessionCreatedRef, uploadedFile,
                 showHistory, historySessions, pageMounted, srv, procs, rejected, askCount>>
colorVars == <<colorInput, colorOutput>>
viewerVars == <<highlights, highlightedSourceIds, documentContent, currentPage,
                itemsPerPage, showHighlights, lastClicked>>
retryVars == <<retryConfig, retryPc, attempt, retryState, uploadInput, uploadState,
               uploadRequests, lastFailure, waits>>
pdfVars == <<documentStructure, pdfSources, pdfResult>>
vars == <<sessionVars, colorVars, viewerVars, retryVars, pdfVars>>

(***************************************************************************)
(* Bounds                                                                  *)
(***************************************************************************)
MaxAsks == 2          \* askQuestion calls issued in one run
MaxPending == 2       \* requests in flight at once

(***************************************************************************)
(* QA session: server side                                                 *)
(***************************************************************************)
SessionIds == {"s1", "s2", "s3"}
Files == {"f1", "f2"}
Questions == {"q1"}
InitialUploads == {"", "f1"}
NoSession == [session_id |-> "", file_id |-> "", messages |-> <<>>]

\* Sessions that exist before the page is opened.
InitialServer ==
    [s \in SessionIds |->
        IF s = "s1" THEN [status |-> "live", file_id |-> "f1", messages |-> <<>>]
        ELSE IF s = "s2" THEN [status |-> "live", file_id |-> "f2", messages |-> <<>>]
        ELSE [status |-> "unused", file_id |-> "", messages |-> <<>>]]

\* ask: append the user message and the assistant message.
ServerAsk(s, q) ==
    [srv EXCEPT ![s].messages =
        @ \o <<[type |-> "user", content |-> q], [type |-> "assistant", content |-> q]>>]

\* create_session: a session with an empty message list.
ServerCreate(s, f) ==
    [srv EXCEPT ![s] = [status |-> "live", file_id |-> f, messages |-> <<>>]]

\* delete_session: idempotent removal.
ServerDelete(s) ==
    [srv EXCEPT ![s] = [status |-> IF @.status = "unused" THEN "unused" ELSE "deleted",
                        file_id |-> "", messages |-> <<>>]]

\* GET /qa/sessions/{id}
ServerSession(s) ==
    [session_id |-> s, file_id |-> srv[s].file_id, messages |-> srv[s].messages]

(***************************************************************************)
(* QA session: requests in flight                                          *)
(***************************************************************************)
Proc(kind, sid, stage, q, appended) ==
    [kind |-> kind, sid |-> sid, stage |-> stage, q |-> q, appended |-> appended]

Pending == BagToSet(procs)
Start(p) == procs (+) SetToBag({p})
Finish(p) == procs (-) SetToBag({p})
Replace(p, r) == (procs (-) SetToBag({p})) (+) SetToBag({r})
CanStart == BagCardinality(procs) < MaxPending

\* setState of an unmounted component is a no-op.
SetSessionState(new) ==
    sessionState' = IF pageMounted THEN new ELSE sessionState

InitialSessionState ==
    [session |-> NoSession, isLoading |-> FALSE, error |-> FALSE,
     isCreating |-> FALSE, isAsking |-> FALSE]

\* What QAPage renders: the main layout, as opposed to the loading and error screens.
MainLayout ==
    /\ pageMounted
    /\ ~isInitializing
    /\ ~sessionState.isCreating
    /\ ~(sessionState.error /\ sessionState.session = NoSession)

ErrorScreen ==
    /\ pageMounted
    /\ ~isInitializing
    /\ ~sessionState.isCreating
    /\ sessionState.error /\ sessionState.session = NoSession

(***************************************************************************)
(* QA session: actions                                                     *)
(***************************************************************************)
\* useSessionHistory: the mount effect calls loadSessions once.
loadSessions ==
    /\ pageMounted
    /\ ~historySessions.requested
    /\ CanStart
    /\ historySessions' = [historySessions EXCEPT !.isLoading = TRUE, !.requested = TRUE]
    /\ procs' = Start(Proc("history", "", "list", "", FALSE))
    /\ UNCHANGED <<sessionState, fileId, isInitializing, sessionCreatedRef, uploadedFile,
                   showHistory, pageMounted, srv, rejected, askCount>>
    /\ UNCHANGED <<colorVars, viewerVars, retryVars, pdfVars>>

loadSessions_resolved ==
    \E p \in Pending :
        /\ p.kind = "history"
        /\ procs' = Finish(p)
        /\ historySessions' =
              IF pageMounted
              THEN [historySessions EXCEPT
                       !.sessions = {s \in SessionIds : srv[s].status = "live"},
                       !.isLoading = FALSE]
              ELSE historySessions
        /\ UNCHANGED <<sessionState, fileId, isInitializing, sessionCreatedRef, uploadedFile,
                       showHistory, pageMounted, srv, rejected, askCount>>
        /\ UNCHANGED <<colorVars, viewerVars, retryVars, pdfVars>>

loadSessions_rejected ==
    \E p \in Pending :
        /\ p.kind = "history"
        /\ procs' = Finish(p)
        /\ historySessions' =
              IF pageMounted THEN [historySessions EXCEPT !.isLoading = FALSE]
              ELSE historySessions
        /\ UNCHANGED <<sessionState, fileId, isInitializing, sessionCreatedRef, uploadedFile,
                       showHistory, pageMounted, srv, rejected, askCount>>
        /\ UNCHANGED <<colorVars, viewerVars, retryVars, pdfVars>>

\* QAPage: the effect that reads localStorage and creates the session.
\* Its dependencies change on every render, so it runs again after each one;
\* sessionCreatedRef keeps it from creating a second session.
createSessionEffect ==
    /\ pageMounted
    /\ IF uploadedFile # ""
       THEN /\ fileId' = uploadedFile
            /\ IF ~sessionCreatedRef
               THEN /\ CanStart
                    /\ sessionCreatedRef' = TRUE
                    /\ sessionState' = [sessionState EXCEPT !.isCreating = TRUE, !.error = FALSE]
                    /\ procs' = Start(Proc("create", "", "create", uploadedFile, FALSE))
                    /\ UNCHANGED isInitializing
               ELSE /\ isInitializing' = FALSE
                    /\ UNCHANGED <<sessionCreatedRef, sessionState, procs>>
       ELSE /\ isInitializing' = FALSE
            /\ UNCHANGED <<fileId, sessionCreatedRef, sessionState, procs>>
    /\ UNCHANGED <<uploadedFile, showHistory, historySessions, pageMounted, srv,
                   rejected, askCount>>
    /\ UNCHANGED <<colorVars, viewerVars, retryVars, pdfVars>>

createSession_resolved ==
    \E p \in Pending : \E s \in SessionIds :
        /\ p.kind = "create"
        /\ srv[s].status = "unused"
        /\ srv' = ServerCreate(s, p.q)
        /\ procs' = Finish(p)
        /\ SetSessionState([sessionState EXCEPT
               !.session = [session_id |-> s, file_id |-> p.q, messages |-> <<>>],
               !.isCreating = FALSE])
        /\ historySessions' =
              IF pageMounted
              THEN [historySessions EXCEPT !.sessions = @ \cup {s}]
              ELSE historySessions
        /\ isInitializing' = IF pageMounted THEN FALSE ELSE isInitializing
        /\ UNCHANGED <<fileId, sessionCreatedRef, uploadedFile, showHistory, pageMounted,
                       rejected, askCount>>
        /\ UNCHANGED <<colorVars, viewerVars, retryVars, pdfVars>>

createSession_rejected ==
    \E p \in Pending :
        /\ p.kind = "create"
        /\ procs' = Finish(p)
        /\ SetSessionState([sessionState EXCEPT !.isCreating = FALSE, !.error = TRUE])
        /\ sessionCreatedRef' = FALSE
        /\ isInitializing' = IF pageMounted THEN FALSE ELSE isInitializing
        /\ UNCHANGED <<fileId, uploadedFile, showHistory, historySessions, pageMounted,
                       srv, rejected, askCount>>
        /\ UNCHANGED <<colorVars, viewerVars, retryVars, pdfVars>>

\* Menu > History, and the close button of the SessionHistory modal.
openHistory ==
    /\ MainLayout
    /\ ~showHistory
    /\ showHistory' = TRUE
    /\ UNCHANGED <<sessionState, fileId, isInitializing, sessionCreatedRef, uploadedFile,
                   historySessions, pageMounted, srv, procs, rejected, askCount>>
    /\ UNCHANGED <<colorVars, viewerVars, retryVars, pdfVars>>

closeHistory ==
    /\ MainLayout
    /\ showHistory
    /\ showHistory' = FALSE
    /\ UNCHANGED <<sessionState, fileId, isInitializing, sessionCreatedRef, uploadedFile,
                   historySessions, pageMounted, srv, procs, rejected, askCount>>
    /\ UNCHANGED <<colorVars, viewerVars, retryVars, pdfVars>>

\* The ChatInput is enabled: ChatInput.handleSendMessage passes its guard.
InputEnabled ==
    /\ MainLayout
    /\ ~showHistory                       \* the modal covers the input
    /\ ~sessionState.isAsking             \* isLoading
    /\ sessionState.session # NoSession   \* disabled

\* ChatInput.handleSendMessage -> QAPage.handleSendMessage -> askQuestion, up to
\* the first await.
handleSendMessage(q) ==
    /\ InputEnabled
    /\ askCount < MaxAsks
    /\ CanStart
    /\ sessionState' = [sessionState EXCEPT !.isAsking = TRUE, !.error = FALSE]
    /\ procs' = Start(Proc("ask", sessionState.session.session_id, "ask", q, FALSE))
    /\ askCount' = askCount + 1
    /\ UNCHANGED <<fileId, isInitializing, sessionCreatedRef, uploadedFile, showHistory,
                   historySessions, pageMounted, srv, rejected>>
    /\ UNCHANGED <<colorVars, viewerVars, retryVars, pdfVars>>

\* POST /qa/ask succeeded; askQuestion goes on to loadSession(session_id).
askQuestion_answered ==
    \E p \in Pending :
        /\ p.kind = "ask" /\ p.stage = "ask"
        /\ srv[p.sid].status = "live"
        /\ srv' = ServerAsk(p.sid, p.q)
        /\ procs' = Replace(p, Proc("ask", p.sid, "reload", p.q, TRUE))
        /\ SetSessionState([sessionState EXCEPT !.isLoading = TRUE, !.error = FALSE])
        /\ UNCHANGED <<fileId, isInitializing, sessionCreatedRef, uploadedFile, showHistory,
                       historySessions, pageMounted, rejected, askCount>>
        /\ UNCHANGED <<colorVars, viewerVars, retryVars, pdfVars>>

askQuestion_catch_keepsAsking(prev) ==
    [prev EXCEPT !.error = TRUE]

\* The state the catch block of askQuestion stores.
askQuestion_catch(prev) ==
    [prev EXCEPT !.isAsking = FALSE, !.error = TRUE]

\* POST /qa/ask failed: the catch block of askQuestion.
askQuestion_askFailed ==
    \E p \in Pending :
        /\ p.kind = "ask" /\ p.stage = "ask"
        /\ procs' = Finish(p)
        /\ SetSessionState(askQuestion_catch(sessionState))
        /\ rejected' = rejected \cup {[sid |-> p.sid, q |-> p.q, appended |-> p.appended]}
        /\ UNCHANGED <<fileId, isInitializing, sessionCreatedRef, uploadedFile, showHistory,
                       historySessions, pageMounted, srv, askCount>>
        /\ UNCHANGED <<colorVars, viewerVars, retryVars, pdfVars>>

\* The reload inside askQuestion succeeded; askQuestion resolves.
askQuestion_resolved ==
    \E p \in Pending :
        /\ p.kind = "ask" /\ p.stage = "reload"
        /\ srv[p.sid].status = "live"
        /\ procs' = Finish(p)
        /\ SetSessionState([sessionState EXCEPT
               !.session = ServerSession(p.sid),
               !.isLoading = FALSE, !.isCreating = FALSE, !.isAsking = FALSE])
        /\ UNCHANGED <<fileId, isInitializing, sessionCreatedRef, uploadedFile, showHistory,
                       historySessions, pageMounted, srv, rejected, askCount>>
        /\ UNCHANGED <<colorVars, viewerVars, retryVars, pdfVars>>

\* The reload inside askQuestion failed: loadSession's catch, then askQuestion's.
askQuestion_reloadFailed ==
    \E p \in Pending :
        /\ p.kind = "ask" /\ p.stage = "reload"
        /\ procs' = Finish(p)
        /\ SetSessionState(askQuestion_catch([sessionState EXCEPT
               !.isLoading = FALSE, !.isCreating = FALSE, !.error = TRUE]))
        /\ rejected' = rejected \cup {[sid |-> p.sid, q |-> p.q, appended |-> p.appended]}
        /\ UNCHANGED <<fileId, isInitializing, sessionCreatedRef, uploadedFile, showHistory,
                       historySessions, pageMounted, srv, askCount>>
        /\ UNCHANGED <<colorVars, viewerVars, retryVars, pdfVars>>

\* The SessionHistory modal shows its list.
HistoryListShown ==
    /\ MainLayout
    /\ showHistory
    /\ ~historySessions.isLoading

\* SessionHistory card click -> QAPage.handleLoadSession -> loadSession.
handleLoadSession(s) ==
    /\ HistoryListShown
    /\ s \in historySessions.sessions
    /\ CanStart
    /\ sessionState' = [sessionState EXCEPT !.isLoading = TRUE, !.error = FALSE]
    /\ procs' = Start(Proc("load", s, "load", "", FALSE))
    /\ UNCHANGED <<fileId, isInitializing, sessionCreatedRef, uploadedFile, showHistory,
                   historySessions, pageMounted, srv, rejected, askCount>>
    /\ UNCHANGED <<colorVars, viewerVars, retryVars, pdfVars>>

loadSession_resolved ==
    \E p \in Pending :
        /\ p.kind = "load"
        /\ srv[p.sid].status = "live"
        /\ procs' = Finish(p)
        /\ SetSessionState([sessionState EXCEPT
               !.session = ServerSession(p.sid),
               !.isLoading = FALSE, !.isCreating = FALSE])
        /\ showHistory' = IF pageMounted THEN FALSE ELSE showHistory
        /\ UNCHANGED <<fileId, isInitializing, sessionCreatedRef, uploadedFile,
                       historySessions, pageMounted, srv, rejected, askCount>>
        /\ UNCHANGED <<colorVars, viewerVars, retryVars, pdfVars>>

loadSession_rejected ==
    \E p \in Pending :
        /\ p.kind = "load"
        /\ procs' = Finish(p)
        /\ SetSessionState([sessionState EXCEPT
               !.isLoading = FALSE, !.isCreating = FALSE, !.error = TRUE])
        /\ UNCHANGED <<fileId, isInitializing, sessionCreatedRef, uploadedFile, showHistory,
                       historySessions, pageMounted, srv, rejected, askCount>>
        /\ UNCHANGED <<colorVars, viewerVars, retryVars, pdfVars>>

\* SessionHistory trash button -> QAPage.handleDeleteSession -> deleteSession.
handleDeleteSession(s) ==
    /\ HistoryListShown
    /\ s \in historySessions.sessions
    /\ CanStart
    /\ procs' = Start(Proc("delete", s, "delete", "", FALSE))
    /\ UNCHANGED <<sessionState, fileId, isInitializing, sessionCreatedRef, uploadedFile,
                   showHistory, historySessions, pageMounted, srv, rejected, askCount>>
    /\ UNCHANGED <<colorVars, viewerVars, retryVars, pdfVars>>

\* What deleteSession stores once the DELETE succeeded.
DeletedSessionState(s) == InitialSessionState

deleteSession_resolved ==
    \E p \in Pending :
        /\ p.kind = "delete"
        /\ srv' = ServerDelete(p.sid)
        /\ procs' = Finish(p)
        /\ SetSessionState(DeletedSessionState(p.sid))
        /\ historySessions' =
              IF pageMounted
              THEN [historySessions EXCEPT !.sessions = @ \ {p.sid}]
              ELSE historySessions
        /\ showHistory' = IF pageMounted THEN FALSE ELSE showHistory
        /\ UNCHANGED <<fileId, isInitializing, sessionCreatedRef, uploadedFile, pageMounted,
                       rejected, askCount>>
        /\ UNCHANGED <<colorVars, viewerVars, retryVars, pdfVars>>

deleteSession_rejected ==
    \E p \in Pending :
        /\ p.kind = "delete"
        /\ procs' = Finish(p)
        /\ SetSessionState([sessionState EXCEPT !.error = TRUE])
        /\ UNCHANGED <<fileId, isInitializing, sessionCreatedRef, uploadedFile, showHistory,
                       historySessions, pageMounted, srv, rejected, askCount>>
        /\ UNCHANGED <<colorVars, viewerVars, retryVars, pdfVars>>

\* "New Session" (menu or error screen): resetSession, then the Link leaves the page.
handleNewSession ==
    /\ MainLayout \/ ErrorScreen
    /\ sessionState' = InitialSessionState
    /\ sessionCreatedRef' = FALSE
    /\ uploadedFile' = ""
    /\ pageMounted' = FALSE
    /\ UNCHANGED <<fileId, isInitializing, showHistory, historySessions, srv, procs,
                   rejected, askCount>>
    /\ UNCHANGED <<colorVars, viewerVars, retryVars, pdfVars>>

\* The error banner's close button and the error screen's "Try Again".
handleClearError ==
    /\ MainLayout \/ ErrorScreen
    /\ sessionState.error
    /\ sessionState' = [sessionState EXCEPT !.error = FALSE]
    /\ UNCHANGED <<fileId, isInitializing, sessionCreatedRef, uploadedFile, showHistory,
                   historySessions, pageMounted, srv, procs, rejected, askCount>>
    /\ UNCHANGED <<colorVars, viewerVars, retryVars, pdfVars>>

SessionNext ==
    \/ loadSessions
    \/ loadSessions_resolved
    \/ loadSessions_rejected
    \/ createSessionEffect
    \/ createSession_resolved
    \/ createSession_rejected
    \/ openHistory
    \/ closeHistory
    \/ \E q \in Questions : handleSendMessage(q)
    \/ askQuestion_answered
    \/ askQuestion_askFailed
    \/ askQuestion_resolved
    \/ askQuestion_reloadFailed
    \/ \E s \in SessionIds : handleLoadSession(s)
    \/ loadSession_resolved
    \/ loadSession_rejected
    \/ \E s \in SessionIds : handleDeleteSession(s)
    \/ deleteSession_resolved
    \/ deleteSession_rejected
    \/ handleNewSession
    \/ handleClearError

(***************************************************************************)
(* Colour assignment (lib/constants/colors.ts)                             *)
(***************************************************************************)
MaxShown == 4         \* sources listed under one chat message
MaxIdDigit == 5       \* source ids end in a digit 0..MaxIdDigit

HIGHLIGHT_COLORS ==
    <<"#fbbf24", "#60a5fa", "#34d399", "#f472b6", "#a78bfa",
      "#fb7185", "#f59e0b", "#10b981", "#8b5cf6", "#ef4444">>

getHighlightColor(index) == HIGHLIGHT_COLORS[(index % Len(HIGHLIGHT_COLORS)) + 1]

\* 32-bit integers are handled as two 16-bit limbs so that no intermediate
\* value leaves the range of the model checker's integers.
Limb == 65536
Hi16(h) == (h \div Limb) % Limb
Lo16(h) == h % Limb
FromLimbs(hi, lo) == IF hi >= Limb \div 2 THEN (hi - Limb) * Limb + lo ELSE hi * Limb + lo

\* hash << 5 (a 32-bit result)
Shl5(h) ==
    LET lo == Lo16(h) * 32
        hi == Hi16(h) * 32 + (lo \div Limb)
    IN  FromLimbs(hi % Limb, lo % Limb)

\* ((hash << 5) - hash) + char, then hash & hash: ToInt32 of the exact sum
HashStep(h, char) ==
    LET x  == Shl5(h)
        lo == Lo16(x) - Lo16(h) + char
        hi == Hi16(x) - Hi16(h) + (lo \div Limb)
    IN  FromLimbs(hi % Limb, lo % Limb)

RECURSIVE HashFrom(_, _, _)
HashFrom(hash, sourceId, i) ==
    IF i > Len(sourceId) THEN hash
    ELSE HashFrom(HashStep(hash, sourceId[i]), sourceId, i + 1)

\* Math.abs(hash) % totalSources; Math.abs(-2^31) is 2^31
AbsMod(hash, totalSources) ==
    IF hash >= 0 THEN hash % totalSources
    ELSE IF Hi16(hash) = Limb \div 2 /\ Lo16(hash) = 0
         THEN (((Limb \div 2) % totalSources) * (Limb % totalSources)) % totalSources
         ELSE (0 - hash) % totalSources

getHighlightColorBySourceId(sourceId, totalSources) ==
    getHighlightColor(AbsMod(HashFrom(0, sourceId, 1), totalSources))

\* Source ids as sequences of char codes: "s0".."s5" and "source_10".."source_15".
IdDigits == 48 .. (48 + MaxIdDigit)
ShortIds == {<<115, d>> : d \in IdDigits}
LongIds == {<<115, 111, 117, 114, 99, 101, 95, 49, d>> : d \in IdDigits}
ColorIds == ShortIds \cup LongIds

\* The totalSources each caller passes.
ManagerTotal == 10

IdleColorInput == [sourceId |-> <<115, 48>>, shown |-> 1]
NoColors == [chat |-> "", manager |-> "", pdf |-> ""]

\* SourceReferences: the colour of a source in the list under a chat message.
SourceReferences_color ==
    /\ colorOutput.chat = ""
    /\ colorOutput' = [colorOutput EXCEPT
           !.chat = getHighlightColorBySourceId(colorInput.sourceId, colorInput.shown)]
    /\ UNCHANGED colorInput
    /\ UNCHANGED <<sessionVars, viewerVars, retryVars, pdfVars>>

\* useHighlightManager.addHighlight: the colour of the same source's highlight.
addHighlight_color ==
    /\ colorOutput.manager = ""
    /\ colorOutput' = [colorOutput EXCEPT
           !.manager = getHighlightColorBySourceId(colorInput.sourceId, ManagerTotal)]
    /\ UNCHANGED colorInput
    /\ UNCHANGED <<sessionVars, viewerVars, retryVars, pdfVars>>

\* createHighlightsFromSourceReferences: the colour of its PDF rectangles.
createHighlights_color ==
    /\ colorOutput.pdf = ""
    /\ colorOutput' = [colorOutput EXCEPT
           !.pdf = getHighlightColorBySourceId(colorInput.sourceId, colorInput.shown)]
    /\ UNCHANGED colorInput
    /\ UNCHANGED <<sessionVars, viewerVars, retryVars, pdfVars>>

ColorNext ==
    \/ SourceReferences_color
    \/ addHighlight_color
    \/ createHighlights_color

(***************************************************************************)
(* Highlight manager (useHighlightManager)                                 *)
(***************************************************************************)
MaxDocLen == 4        \* characters in the document; source offsets lie within it

Max(a, b) == IF a >= b THEN a ELSE b
Min(a, b) == IF a <= b THEN a ELSE b

\* Source references a chat message can carry: valid ranges, empty ranges and
\* a negative start.
ViewerIds == {<<115, 48>>, <<115, 49>>}
ManagerIds == {<<115, 48>>, <<115, 49>>, <<115, 50>>}
SourceRefs(ids) ==
    {r \in [id : ids, start_index : 0 .. (MaxDocLen - 1), end_index : 1 .. MaxDocLen] :
        r.end_index > r.start_index}
    \cup [id : ids, start_index : {-1}, end_index : {1}]
    \cup [id : ids, start_index : {1}, end_index : {1}]

NoClick == "none"

Elems(seq) == {seq[i] : i \in 1 .. Len(seq)}

\* addHighlight passes its validation of the position data.
ValidPosition(source) ==
    ~(source.start_index < 0 \/ source.end_index <= source.start_index)

newHighlight(source) ==
    [id |-> source.id,
     startIndex |-> source.start_index,
     endIndex |-> source.end_index,
     color |-> getHighlightColorBySourceId(source.id, ManagerTotal)]

\* The two state updates of addHighlight.
addHighlight_highlights(prev, source) ==
    IF ~ValidPosition(source) THEN prev
    ELSE IF \E h \in Elems(prev) : h.id = source.id THEN prev
    ELSE Append(prev, newHighlight(source))

addHighlight_ids(prev, source) ==
    IF ~ValidPosition(source) THEN prev
    ELSE IF source.id \in Elems(prev) THEN prev
    ELSE Append(prev, source.id)

\* A removeHighlight that drops every highlight instead of the one named.
removeHighlight_highlights_dropsAll(prev, highlightId) ==
    << >>

\* The two state updates of removeHighlight.
removeHighlight_highlights(prev, highlightId) ==
    LET Keep(h) == h.id # highlightId IN SelectSeq(prev, Keep)

removeHighlight_ids(prev, highlightId) ==
    LET Keep(id) == id # highlightId IN SelectSeq(prev, Keep)

addHighlight(source) ==
    /\ highlights' = addHighlight_highlights(highlights, source)
    /\ highlightedSourceIds' = addHighlight_ids(highlightedSourceIds, source)
    /\ lastClicked' = IF highlights' = highlights THEN "ignored" ELSE "add"

removeHighlight(highlightId) ==
    /\ highlights' = removeHighlight_highlights(highlights, highlightId)
    /\ highlightedSourceIds' = removeHighlight_ids(highlightedSourceIds, highlightId)
    /\ lastClicked' = "remove"

toggleHighlight(source) ==
    IF source.id \in Elems(highlightedSourceIds)
    THEN removeHighlight(source.id)
    ELSE addHighlight(source)

\* QAPage.handleSourceClick: a click on a source under a chat message.
handleSourceClick(source) ==
    /\ toggleHighlight(source)
    /\ UNCHANGED <<documentContent, currentPage, itemsPerPage, showHighlights>>
    /\ UNCHANGED <<sessionVars, colorVars, retryVars, pdfVars>>

\* QAPage.handleClearHighlights: the viewer's Clear button.
handleClearHighlights ==
    /\ highlights # <<>>
    /\ highlights' = <<>>
    /\ highlightedSourceIds' = <<>>
    /\ lastClicked' = NoClick
    /\ UNCHANGED <<documentContent, currentPage, itemsPerPage, showHighlights>>
    /\ UNCHANGED <<sessionVars, colorVars, retryVars, pdfVars>>

(***************************************************************************)
(* Plain-text document viewer (DocumentViewer.tsx)                         *)
(***************************************************************************)
LinesPerPage == 2     \* the default "Lines per page" (50 in the source, scaled)

NL == "\n"
Chars == {"a", NL}
Docs == [1 .. MaxDocLen -> Chars]
NoDoc == [loaded |-> FALSE, full_text |-> <<>>]
ItemsPerPageOptions == {1, LinesPerPage}

CeilDiv(a, b) == (a + b - 1) \div b

\* Array.prototype.slice / String.prototype.slice for non-negative bounds
Slice(seq, from, to) == SubSeq(seq, from + 1, Min(to, Len(seq)))

\* String.prototype.split('\n')
RECURSIVE Split(_)
Split(text) ==
    IF \A i \in 1 .. Len(text) : text[i] # NL THEN <<text>>
    ELSE LET i == CHOOSE k \in 1 .. Len(text) :
                      text[k] = NL /\ \A j \in 1 .. (k - 1) : text[j] # NL
         IN  <<SubSeq(text, 1, i - 1)>> \o Split(SubSeq(text, i + 1, Len(text)))

\* Array.prototype.join('\n')
RECURSIVE Join(_)
Join(lines) ==
    IF lines = <<>> THEN <<>>
    ELSE IF Len(lines) = 1 THEN lines[1]
    ELSE lines[1] \o <<NL>> \o Join(Tail(lines))

getPaginatedContent ==
    IF ~documentContent.loaded
    THEN [content |-> <<>>, totalPages |-> 0, startLine |-> 0, endLine |-> 0]
    ELSE LET lines == Split(documentContent.full_text)
             startIndex == (currentPage - 1) * itemsPerPage
             endIndex == Min(startIndex + itemsPerPage, Len(lines))
         IN  [content |-> Join(Slice(lines, startIndex, endIndex)),
              totalPages |-> CeilDiv(Len(lines), itemsPerPage),
              startLine |-> startIndex + 1,
              endLine |-> endIndex]

\* The length of the lines before the window, without the newline that ends them.
startCharIndex_withoutNewline ==
    LET startLine == getPaginatedContent.startLine
        lines == Split(documentContent.full_text)
    IN  IF startLine > 1 THEN Len(Join(Slice(lines, 0, startLine - 1))) ELSE 0

\* renderHighlightedText: the character index of the window's first character
startCharIndex ==
    LET startLine == getPaginatedContent.startLine
        lines == Split(documentContent.full_text)
    IN  IF startLine > 1
        THEN LET linesBefore == Slice(lines, 0, startLine - 1)
             IN  Len(Join(linesBefore)) + (IF Len(linesBefore) > 0 THEN 1 ELSE 0)
        ELSE 0

\* renderHighlightedText: the filter that keeps the highlights of the current page
isVisible(highlight, text) ==
    /\ highlight.startIndex >= startCharIndex
    /\ highlight.startIndex < startCharIndex + Len(text)

visibleHighlights(text) ==
    LET Keep(h) == isVisible(h, text) IN SelectSeq(highlights, Keep)

\* renderHighlightedText: positions relative to the current page
\* An adjusted end that is not clipped to the length of the page.
adjustedEnd_unclipped(highlight, text) ==
    highlight.endIndex - startCharIndex

adjustedEnd(highlight, text) ==
    Min(Len(text), highlight.endIndex - startCharIndex)

adjust(highlight, text) ==
    [highlight EXCEPT
        !.startIndex = Max(0, highlight.startIndex - startCharIndex),
        !.endIndex = adjustedEnd(highlight, text)]

isValid(highlight, text) ==
    /\ highlight.startIndex >= 0
    /\ highlight.endIndex > highlight.startIndex
    /\ highlight.endIndex <= Len(text)

adjustedHighlights(text) ==
    LET vis == visibleHighlights(text)
        adj == [i \in 1 .. Len(vis) |-> adjust(vis[i], text)]
        Keep(h) == isValid(h, text)
    IN  SelectSeq(adj, Keep)

\* [...].sort((a, b) => a.startIndex - b.startIndex): a stable sort
RECURSIVE InsertByStart(_, _)
InsertByStart(sorted, h) ==
    IF sorted = <<>> THEN <<h>>
    ELSE IF h.startIndex < Head(sorted).startIndex THEN <<h>> \o sorted
    ELSE <<Head(sorted)>> \o InsertByStart(Tail(sorted), h)

RECURSIVE SortByStart(_)
SortByStart(seq) ==
    IF seq = <<>> THEN <<>>
    ELSE InsertByStart(SortByStart(SubSeq(seq, 1, Len(seq) - 1)), seq[Len(seq)])

\* highlightText && highlightText.trim()
NonBlank(str) == \E i \in 1 .. Len(str) : str[i] \notin {NL, " "}

TextSpan(from, to) ==
    [kind |-> "text", start |-> from, end |-> to, id |-> <<>>, color |-> ""]
HighlightSpan(h) ==
    [kind |-> "highlight", start |-> h.startIndex, end |-> h.endIndex,
     id |-> h.id, color |-> h.color]

\* The spans one highlight contributes, given lastIndex.
renderOne(highlight, lastIndex, text) ==
    (IF highlight.startIndex > lastIndex
     THEN <<TextSpan(lastIndex, highlight.startIndex)>> ELSE <<>>)
    \o (IF NonBlank(Slice(text, highlight.startIndex, highlight.endIndex))
        THEN <<HighlightSpan(highlight)>> ELSE <<>>)

\* renderHighlightedText: the forEach over sortedHighlights and the remaining text
RECURSIVE renderLoop(_, _, _)
renderLoop(sorted, lastIndex, text) ==
    IF sorted = <<>>
    THEN (IF lastIndex < Len(text) THEN <<TextSpan(lastIndex, Len(text))>> ELSE <<>>)
    ELSE LET h == Head(sorted)
             shown == NonBlank(Slice(text, h.startIndex, h.endIndex))
         IN  renderOne(h, lastIndex, text)
             \o renderLoop(Tail(sorted), IF shown THEN h.endIndex ELSE lastIndex, text)

renderHighlightedText(text) ==
    IF ~showHighlights \/ highlights = <<>>
    THEN <<TextSpan(0, Len(text))>>
    ELSE renderLoop(SortByStart(adjustedHighlights(text)), 0, text)

\* What the viewer shows for the current page.
Rendered ==
    IF documentContent.loaded THEN renderHighlightedText(getPaginatedContent.content)
    ELSE <<>>

RenderedHighlights ==
    LET Keep(seg) == seg.kind = "highlight" IN SelectSeq(Rendered, Keep)

\* The start offset taken as a line number that is not cut at the last line.
targetPage_uncut(highlight) ==
    CeilDiv(Max(1, highlight.startIndex), itemsPerPage)

\* navigateToHighlight: the page it computes for a highlight
targetPage(highlight) ==
    LET lines == Split(documentContent.full_text)
        highlightLine == Len(Split(Join(Slice(lines, 0, highlight.startIndex))))
    IN  CeilDiv(highlightLine, itemsPerPage)

\* loadDocumentContent: the document arrives.
loadDocumentContent ==
    /\ ~documentContent.loaded
    /\ \E text \in Docs : documentContent' = [loaded |-> TRUE, full_text |-> text]
    /\ lastClicked' = NoClick
    /\ UNCHANGED <<highlights, highlightedSourceIds, currentPage, itemsPerPage,
                   showHighlights>>
    /\ UNCHANGED <<sessionVars, colorVars, retryVars, pdfVars>>

\* First / Previous / Next / Last
handlePageChange(page) ==
    /\ documentContent.loaded
    /\ \/ page = 1 /\ currentPage # 1
       \/ page = currentPage - 1 /\ currentPage # 1
       \/ page = currentPage + 1 /\ ~(currentPage >= getPaginatedContent.totalPages)
       \/ page = getPaginatedContent.totalPages
             /\ ~(currentPage >= getPaginatedContent.totalPages)
    /\ currentPage' = page
    /\ lastClicked' = NoClick
    /\ UNCHANGED <<highlights, highlightedSourceIds, documentContent, itemsPerPage,
                   showHighlights>>
    /\ UNCHANGED <<sessionVars, colorVars, retryVars, pdfVars>>

handleItemsPerPageChange(items) ==
    /\ documentContent.loaded
    /\ itemsPerPage' = items
    /\ currentPage' = 1
    /\ lastClicked' = NoClick
    /\ UNCHANGED <<highlights, highlightedSourceIds, documentContent, showHighlights>>
    /\ UNCHANGED <<sessionVars, colorVars, retryVars, pdfVars>>

\* The eye button: setShowHighlights(!showHighlights)
toggleShowHighlights ==
    /\ documentContent.loaded
    /\ showHighlights' = ~showHighlights
    /\ lastClicked' = NoClick
    /\ UNCHANGED <<highlights, highlightedSourceIds, documentContent, currentPage,
                   itemsPerPage>>
    /\ UNCHANGED <<sessionVars, colorVars, retryVars, pdfVars>>

\* "Jump to Highlight": the smallest page of getPagesWithHighlights
jumpToHighlight ==
    /\ documentContent.loaded
    /\ highlights # <<>>
    /\ LET pages == {targetPage(h) : h \in Elems(highlights)}
       IN  currentPage' = CHOOSE p \in pages : \A o \in pages : p <= o
    /\ lastClicked' = "jump"
    /\ UNCHANGED <<highlights, highlightedSourceIds, documentContent, itemsPerPage,
                   showHighlights>>
    /\ UNCHANGED <<sessionVars, colorVars, retryVars, pdfVars>>

\* A click on a rendered highlight: navigateToHighlight with the rendered
\* (page-relative) highlight.
highlightClick(seg) ==
    /\ documentContent.loaded
    /\ seg \in Elems(RenderedHighlights)
    /\ currentPage' = targetPage([startIndex |-> seg.start])
    /\ lastClicked' = "span"
    /\ UNCHANGED <<highlights, highlightedSourceIds, documentContent, itemsPerPage,
                   showHighlights>>
    /\ UNCHANGED <<sessionVars, colorVars, retryVars, pdfVars>>

ViewerNext ==
    \/ loadDocumentContent
    \/ \E source \in SourceRefs(ViewerIds) : handleSourceClick(source)
    \/ handleClearHighlights
    \/ \E page \in 1 .. (MaxDocLen + 1) : handlePageChange(page)
    \/ \E items \in ItemsPerPageOptions : handleItemsPerPageChange(items)
    \/ toggleShowHighlights
    \/ jumpToHighlight
    \/ \E seg \in Elems(RenderedHighlights) : highlightClick(seg)

\* The highlight manager on its own, with three sources.
ManagerNext ==
    \/ \E source \in SourceRefs(ManagerIds) : handleSourceClick(source)
    \/ handleClearHighlights

(***************************************************************************)
(* Retry policy (useRetry) and upload (useFileUpload)                      *)
(***************************************************************************)
MaxAttemptsBound == 3 \* largest maxAttempts a retry policy is configured with

\* useRetry is parameterised by its config; useFileUpload instantiates it with
\* { maxAttempts: 3 } and the defaults, which is UploadRetryConfig.
DefaultBaseDelay == 1000
DefaultMaxDelay == 10000
DefaultBackoffMultiplier == 2
UploadMaxAttempts == 3
UploadRetryConfig ==
    [maxAttempts |-> UploadMaxAttempts, baseDelay |-> DefaultBaseDelay,
     maxDelay |-> DefaultMaxDelay, backoffMultiplier |-> DefaultBackoffMultiplier]
RetryConfigs ==
    {UploadRetryConfig} \cup
    [maxAttempts : 0 .. MaxAttemptsBound,
     baseDelay : {DefaultBaseDelay, 4 * DefaultBaseDelay},
     maxDelay : {DefaultMaxDelay, 3 * DefaultBaseDelay},
     backoffMultiplier : {1, DefaultBackoffMultiplier, 3}]

RECURSIVE Pow(_, _)
Pow(b, e) == IF e = 0 THEN 1 ELSE b * Pow(b, e - 1)

\* A delay whose exponent counts the attempts from one.
calculateDelay_fromOne(n) ==
    Min(retryConfig.baseDelay * Pow(retryConfig.backoffMultiplier, n + 1),
        retryConfig.maxDelay)

\* A delay that is not capped at maxDelay.
calculateDelay_uncapped(n) ==
    retryConfig.baseDelay * Pow(retryConfig.backoffMultiplier, n)

calculateDelay(n) ==
    Min(retryConfig.baseDelay * Pow(retryConfig.backoffMultiplier, n), retryConfig.maxDelay)

RECURSIVE Sum(_)
Sum(seq) == IF seq = <<>> THEN 0 ELSE Head(seq) + Sum(Tail(seq))

FileTypes == {"supported", "unsupported"}
StudyModes == {"qa", "quiz", "flashcards"}
NoUpload == [fileType |-> "", studyMode |-> ""]

Step(name, status) == [name |-> name, status |-> status]

\* Initial steps that list the embedding and storage steps for every mode.
initialSteps_everyMode(studyMode) ==
    <<Step("Uploading file", "pending"),
      Step("Extracting text", "pending"),
      Step("Chunking content", "pending"),
      Step("Generating embeddings", "pending"),
      Step("Storing in vector database", "pending"),
      Step("Finalizing", "pending")>>

initialSteps(studyMode) ==
    <<Step("Uploading file", "pending"),
      Step("Extracting text", "pending"),
      Step("Chunking content", "pending")>>
    \o (IF studyMode = "qa"
        THEN <<Step("Generating embeddings", "pending"),
               Step("Storing in vector database", "pending")>>
        ELSE <<>>)
    \o <<Step("Finalizing", "pending")>>

InitialUploadState ==
    [isUploading |-> FALSE, uploadProgress |-> 0, error |-> FALSE, errorAttempts |-> 0,
     uploadResult |-> FALSE, processingSteps |-> <<>>]

InitialRetryState == [attempts |-> 0, isRetrying |-> FALSE, hasError |-> FALSE]

\* The retryState that retry() reads: useCallback keeps the function of the
\* first render as long as maxAttempts and calculateDelay are the same, and that
\* function closes over the first render's retryState.
retryState_inClosure == InitialRetryState

SetStatus(steps, status) ==
    [i \in 1 .. Len(steps) |-> [steps[i] EXCEPT !.status = status]]

\* uploadFile up to the first await: the state update, then retry() enters its
\* loop and calls the operation, which sends the upload request.
uploadFile(fileType, studyMode) ==
    /\ retryPc = "idle"
    /\ uploadInput' = [fileType |-> fileType, studyMode |-> studyMode]
    /\ uploadState' = [isUploading |-> TRUE, uploadProgress |-> 0, error |-> FALSE,
                       errorAttempts |-> 0,
                       uploadResult |-> FALSE,
                       processingSteps |-> initialSteps(studyMode)]
    /\ attempt' = 0
    /\ retryState' = [retryState EXCEPT !.attempts = 0, !.isRetrying = FALSE]
    /\ uploadRequests' = 1
    /\ lastFailure' = ""
    /\ waits' = <<>>
    /\ retryPc' = "calling"
    /\ UNCHANGED retryConfig
    /\ UNCHANGED <<sessionVars, colorVars, viewerVars, pdfVars>>

\* The operation's progressInterval (every 300 ms while the request is out).
progressTick ==
    /\ retryPc = "calling"
    /\ uploadState.uploadProgress < 90
    /\ uploadState' = [uploadState EXCEPT !.uploadProgress = Min(@ + 5, 90)]
    /\ UNCHANGED <<retryConfig, retryPc, attempt, retryState, uploadInput,
                   uploadRequests, lastFailure, waits>>
    /\ UNCHANGED <<sessionVars, colorVars, viewerVars, pdfVars>>

\* The operation's stepInterval (every 800 ms while the request is out).
stepTick ==
    /\ retryPc = "calling"
    /\ LET steps == uploadState.processingSteps
           currentStepIndex == (uploadState.uploadProgress * (Len(steps) - 1)) \div 90
           updatedSteps ==
               [i \in 1 .. Len(steps) |->
                   IF i - 1 < currentStepIndex THEN [steps[i] EXCEPT !.status = "completed"]
                   ELSE IF i - 1 = currentStepIndex
                        THEN [steps[i] EXCEPT !.status = "processing"]
                        ELSE steps[i]]
       IN  /\ updatedSteps # steps
           /\ uploadState' = [uploadState EXCEPT !.processingSteps = updatedSteps]
    /\ UNCHANGED <<retryConfig, retryPc, attempt, retryState, uploadInput,
                   uploadRequests, lastFailure, waits>>
    /\ UNCHANGED <<sessionVars, colorVars, viewerVars, pdfVars>>

\* The upload request succeeded: the operation's state update, then retry()'s.
operation_resolved ==
    /\ retryPc = "calling"
    /\ uploadInput.fileType = "supported"
    /\ uploadState' = [uploadState EXCEPT
           !.isUploading = FALSE, !.uploadProgress = 100, !.uploadResult = TRUE,
           !.processingSteps = SetStatus(@, "completed")]
    /\ retryState' = InitialRetryState
    /\ retryPc' = "succeeded"
    /\ UNCHANGED <<retryConfig, attempt, uploadInput, uploadRequests, lastFailure, waits>>
    /\ UNCHANGED <<sessionVars, colorVars, viewerVars, pdfVars>>

\* The break of retry()'s loop: true when no further attempt follows a failure.
lastAttempt(n, kind) == n = retryConfig.maxAttempts

\* The upload request failed: the catch block of retry(), and after the last
\* attempt the code that follows the loop (with useFileUpload's error callback).
operation_rejected(kind) ==
    /\ retryPc = "calling"
    /\ kind = "validation" => uploadInput.fileType = "unsupported"
    /\ lastFailure' = kind
    /\ IF lastAttempt(attempt, kind)
       THEN /\ retryState' = [retryState EXCEPT !.hasError = TRUE, !.isRetrying = FALSE]
            /\ uploadState' = [uploadState EXCEPT
                   !.isUploading = FALSE, !.uploadProgress = 0, !.error = TRUE,
                   !.errorAttempts = retryState_inClosure.attempts,
                   !.processingSteps = SetStatus(@, "error")]
            /\ retryPc' = "failed"
            /\ UNCHANGED waits
       ELSE /\ retryState' = [retryState EXCEPT !.hasError = TRUE]
            /\ waits' = Append(waits, calculateDelay(attempt))
            /\ retryPc' = "waiting"
            /\ UNCHANGED uploadState
    /\ UNCHANGED <<retryConfig, attempt, uploadInput, uploadRequests>>
    /\ UNCHANGED <<sessionVars, colorVars, viewerVars, pdfVars>>

\* The backoff timer fired: the next iteration of retry()'s loop.
retry_nextAttempt ==
    /\ retryPc = "waiting"
    /\ attempt' = attempt + 1
    /\ retryState' = [retryState EXCEPT !.attempts = attempt + 1, !.isRetrying = TRUE]
    /\ uploadRequests' = uploadRequests + 1
    /\ retryPc' = "calling"
    /\ UNCHANGED <<retryConfig, uploadInput, uploadState, lastFailure, waits>>
    /\ UNCHANGED <<sessionVars, colorVars, viewerVars, pdfVars>>

\* resetUpload, after which another upload can start.
resetUpload ==
    /\ retryPc \in {"succeeded", "failed"}
    /\ uploadState' = InitialUploadState
    /\ retryPc' = "idle"
    /\ UNCHANGED <<retryConfig, attempt, retryState, uploadInput, uploadRequests,
                   lastFailure, waits>>
    /\ UNCHANGED <<sessionVars, colorVars, viewerVars, pdfVars>>

FailureKinds == {"validation", "transient"}

RetryNext ==
    \/ \E fileType \in FileTypes, studyMode \in StudyModes : uploadFile(fileType, studyMode)
    \/ progressTick
    \/ stepTick
    \/ operation_resolved
    \/ \E kind \in FailureKinds : operation_rejected(kind)
    \/ retry_nextAttempt
    \/ resetUpload

(***************************************************************************)
(* Paged (PDF) correlation: PDFViewer.createHighlightsFromSourceReferences, *)
(* createHighlightsFromPyMuPDFData and useDocumentViewer.getPageForPosition *)
(***************************************************************************)
MaxPages == 2         \* pages of a document

SourceRefPrefix == 50
PyMuPDFPrefix == 30

\* Page tables as the document-content endpoint describes them: the pages'
\* half-open spans [start_index, end_index) are disjoint and ascending, either
\* contiguous (each page starts where the previous one ends) or separated by
\* one character.
PageSpan(kind, i) ==
    IF kind = "contiguous"
    THEN [start_index |-> 2 * (i - 1), end_index |-> 2 * i]
    ELSE [start_index |-> 3 * (i - 1), end_index |-> 3 * (i - 1) + 2]

TableKinds == {"contiguous", "separated"}
Positions == 0 .. (3 * MaxPages)

\* Text: a sequence of characters.
Repeat(char, n) == [i \in 1 .. n |-> char]
LongText == Repeat("a", SourceRefPrefix) \o <<"b">>
SourceTexts == {LongText, <<"b">>, <<"z">>}

\* Text blocks of a page (PyMuPDFBoundingBox): bbox = [x0, y0, x1, y1].
Block(bbox, text) == [bbox |-> bbox, text |-> text]
BlockA50 == Block(<<1, 2, 4, 6>>, Repeat("a", SourceRefPrefix))
BlockA30 == Block(<<0, 0, 3, 1>>, Repeat("a", PyMuPDFPrefix))
BlockBC == Block(<<2, 1, 5, 3>>, <<"b", "c">>)

\* What a page carries as text_blocks: nothing, or one of two lists.
PageBlocks ==
    {[has_text_blocks |-> FALSE, text_blocks |-> <<>>],
     [has_text_blocks |-> TRUE, text_blocks |-> <<BlockA50, BlockBC>>],
     [has_text_blocks |-> TRUE, text_blocks |-> <<BlockA30, BlockA50>>]}

Page(kind, i, blocks) ==
    [page_number |-> i,
     start_index |-> PageSpan(kind, i).start_index,
     end_index |-> PageSpan(kind, i).end_index,
     has_text_blocks |-> blocks.has_text_blocks,
     text_blocks |-> blocks.text_blocks]

NoPage ==
    [page_number |-> 0, start_index |-> 0, end_index |-> 0,
     has_text_blocks |-> FALSE, text_blocks |-> <<>>]

\* document_structure: with its pages, or without a pages array.
NoStructure == [has_pages |-> FALSE, pages |-> <<>>]
Structures ==
    {NoStructure} \cup
    {[has_pages |-> TRUE, pages |-> [i \in 1 .. n |-> Page(kind, i, blocks[i])]] :
        kind \in TableKinds, n \in 0 .. MaxPages, blocks \in [1 .. MaxPages -> PageBlocks]}

\* Source references handed to the correlator: one source, alone or followed
\* by a second one.
PdfSource(id, text, has_offsets, start_index, page_number) ==
    [id |-> id, text |-> text, has_offsets |-> has_offsets,
     start_index |-> start_index, end_index |-> start_index + 1,
     page_number |-> page_number]

PdfSourcePool ==
    {PdfSource(<<115, 48>>, text, TRUE, position, page_number) :
        text \in SourceTexts, position \in Positions, page_number \in 0 .. (MaxPages + 1)}
    \cup
    {PdfSource(<<115, 48>>, text, FALSE, 0, page_number) :
        text \in SourceTexts, page_number \in 0 .. (MaxPages + 1)}

CompanionSource == PdfSource(<<115, 49>>, <<"b">>, TRUE, 0, 1)

PdfSourceLists ==
    {<<source>> : source \in PdfSourcePool}
    \cup {<<source, CompanionSource>> : source \in PdfSourcePool}

\* String.prototype.substring(0, n)
Substring(text, n) == SubSeq(text, 1, Min(n, Len(text)))

\* String.prototype.includes
Includes(text, part) ==
    \E i \in 0 .. (Len(text) - Len(part)) : SubSeq(text, i + 1, i + Len(part)) = part

\* pages.find(page => position >= page.start_index && position <= page.end_index),
\* NoPage when find returns undefined
RECURSIVE FindPage(_, _)
FindPage(pages, position) ==
    IF pages = <<>> THEN NoPage
    ELSE IF position >= Head(pages).start_index /\ position <= Head(pages).end_index
         THEN Head(pages)
         ELSE FindPage(Tail(pages), position)

\* The HighlightArea pushed for one matching block.
HighlightArea(block, pageIndex, color) ==
    [pageIndex |-> pageIndex,
     left |-> block.bbox[1],
     top |-> block.bbox[2],
     width |-> block.bbox[3] - block.bbox[1],
     height |-> block.bbox[4] - block.bbox[2],
     color |-> color,
     opacity |-> "0.4"]

\* createHighlightsFromSourceReferences: the page it finds for a source
pageData(source, structure) ==
    IF structure.has_pages THEN FindPage(structure.pages, source.start_index) ELSE NoPage

\* createHighlightsFromSourceReferences: the body of sources.forEach
sourceHighlights(source, sources, structure) ==
    IF ~source.has_offsets THEN <<>>
    ELSE LET page == pageData(source, structure)
         IN  IF page = NoPage \/ ~page.has_text_blocks THEN <<>>
             ELSE LET Match(block) ==
                          Includes(block.text, Substring(source.text, SourceRefPrefix))
                      matchingBlocks == SelectSeq(page.text_blocks, Match)
                  IN  [i \in 1 .. Len(matchingBlocks) |->
                          HighlightArea(matchingBlocks[i], page.page_number - 1,
                              getHighlightColorBySourceId(source.id, Len(sources)))]

RECURSIVE createHighlightsFrom(_, _, _)
createHighlightsFrom(rest, sources, structure) ==
    IF rest = <<>> THEN <<>>
    ELSE sourceHighlights(Head(rest), sources, structure)
         \o createHighlightsFrom(Tail(rest), sources, structure)

createHighlightsFromSourceReferences(sources, structure) ==
    createHighlightsFrom(sources, sources, structure)

\* boundingBoxes[pageNumber] of createHighlightsFromPyMuPDFData: the text
\* blocks of the page of that number, NoPage when the record has no such key
boundingBoxes(structure, pageNumber) ==
    IF /\ structure.has_pages
       /\ pageNumber \in 1 .. Len(structure.pages)
       /\ structure.pages[pageNumber].has_text_blocks
    THEN structure.pages[pageNumber]
    ELSE NoPage

\* createHighlightsFromPyMuPDFData: the body of sources.forEach
pyMuPDFHighlights(source, sources, structure) ==
    IF source.page_number = 0 \/ boundingBoxes(structure, source.page_number) = NoPage
    THEN <<>>
    ELSE LET pageBlocks == boundingBoxes(structure, source.page_number).text_blocks
             Match(block) == Includes(block.text, Substring(source.text, PyMuPDFPrefix))
             matchingBlocks == SelectSeq(pageBlocks, Match)
         IN  [i \in 1 .. Len(matchingBlocks) |->
                 HighlightArea(matchingBlocks[i], source.page_number - 1,
                     getHighlightColorBySourceId(source.id, Len(sources)))]

RECURSIVE createPyMuPDFHighlightsFrom(_, _, _)
createPyMuPDFHighlightsFrom(rest, sources, structure) ==
    IF rest = <<>> THEN <<>>
    ELSE pyMuPDFHighlights(Head(rest), sources, structure)
         \o createPyMuPDFHighlightsFrom(Tail(rest), sources, structure)

createHighlightsFromPyMuPDFData(sources, structure) ==
    createPyMuPDFHighlightsFrom(sources, sources, structure)

\* useDocumentViewer.getPageForPosition: a page number, 0 for null
getPageForPosition(position) ==
    IF ~documentStructure.has_pages THEN 0
    ELSE FindPage(documentStructure.pages, position).page_number

NoPdfResult == [call |-> "none", highlights |-> <<>>, position |-> 0, page |-> 0]

createHighlightsFromSourceReferences_call ==
    /\ pdfResult' = [call |-> "createHighlightsFromSourceReferences",
                     highlights |->
                         createHighlightsFromSourceReferences(pdfSources, documentStructure),
                     position |-> 0, page |-> 0]
    /\ UNCHANGED <<documentStructure, pdfSources>>
    /\ UNCHANGED <<sessionVars, colorVars, viewerVars, retryVars>>

createHighlightsFromPyMuPDFData_call ==
    /\ pdfResult' = [call |-> "createHighlightsFromPyMuPDFData",
                     highlights |->
                         createHighlightsFromPyMuPDFData(pdfSources, documentStructure),
                     position |-> 0, page |-> 0]
    /\ UNCHANGED <<documentStructure, pdfSources>>
    /\ UNCHANGED <<sessionVars, colorVars, viewerVars, retryVars>>

getPageForPosition_call(position) ==
    /\ pdfResult' = [call |-> "getPageForPosition", highlights |-> <<>>,
                     position |-> position, page |-> getPageForPosition(position)]
    /\ UNCHANGED <<documentStructure, pdfSources>>
    /\ UNCHANGED <<sessionVars, colorVars, viewerVars, retryVars>>

PdfNext ==
    \/ createHighlightsFromSourceReferences_call
    \/ createHighlightsFromPyMuPDFData_call
    \/ \E position \in Positions : getPageForPosition_call(position)

(***************************************************************************)
(* Specifications                                                          *)
(***************************************************************************)
\* The parts of the initial state each specification shares.
SessionSpecInit ==
    /\ sessionState = InitialSessionState
    /\ fileId = ""
    /\ isInitializing = TRUE
    /\ sessionCreatedRef = FALSE
    /\ uploadedFile \in InitialUploads
    /\ showHistory = FALSE
    /\ historySessions = [sessions |-> {}, isLoading |-> FALSE, requested |-> FALSE]
    /\ pageMounted = TRUE
    /\ srv = InitialServer
    /\ procs = EmptyBag
    /\ rejected = {}
    /\ askCount = 0
    /\ colorInput = IdleColorInput
    /\ colorOutput = NoColors
    /\ highlights = <<>>
    /\ highlightedSourceIds = <<>>
    /\ documentContent = NoDoc
    /\ currentPage = 1
    /\ itemsPerPage = LinesPerPage
    /\ showHighlights = TRUE
    /\ lastClicked = NoClick
    /\ retryConfig = UploadRetryConfig
    /\ retryPc = "idle"
    /\ attempt = 0
    /\ retryState = InitialRetryState
    /\ uploadInput = NoUpload
    /\ uploadState = InitialUploadState
    /\ uploadRequests = 0
    /\ lastFailure = ""
    /\ waits = <<>>
    /\ documentStructure = NoStructure
    /\ pdfSources = <<>>
    /\ pdfResult = NoPdfResult

SessionSpec == SessionSpecInit /\ [][SessionNext]_vars

ColorSpecInit ==
    /\ sessionState = InitialSessionState
    /\ fileId = ""
    /\ isInitializing = TRUE
    /\ sessionCreatedRef = FALSE
    /\ uploadedFile = ""
    /\ showHistory = FALSE
    /\ historySessions = [sessions |-> {}, isLoading |-> FALSE, requested |-> FALSE]
    /\ pageMounted = TRUE
    /\ srv = InitialServer
    /\ procs = EmptyBag
    /\ rejected = {}
    /\ askCount = 0
    /\ colorInput \in [sourceId : ColorIds, shown : 1 .. MaxShown]
    /\ colorOutput = NoColors
    /\ highlights = <<>>
    /\ highlightedSourceIds = <<>>
    /\ documentContent = NoDoc
    /\ currentPage = 1
    /\ itemsPerPage = LinesPerPage
    /\ showHighlights = TRUE
    /\ lastClicked = NoClick
    /\ retryConfig = UploadRetryConfig
    /\ retryPc = "idle"
    /\ attempt = 0
    /\ retryState = InitialRetryState
    /\ uploadInput = NoUpload
    /\ uploadState = InitialUploadState
    /\ uploadRequests = 0
    /\ lastFailure = ""
    /\ waits = <<>>
    /\ documentStructure = NoStructure
    /\ pdfSources = <<>>
    /\ pdfResult = NoPdfResult

ColorSpec == ColorSpecInit /\ [][ColorNext]_vars

ViewerSpecInit ==
    /\ sessionState = InitialSessionState
    /\ fileId = ""
    /\ isInitializing = TRUE
    /\ sessionCreatedRef = FALSE
    /\ uploadedFile = ""
    /\ showHistory = FALSE
    /\ historySessions = [sessions |-> {}, isLoading |-> FALSE, requested |-> FALSE]
    /\ pageMounted = TRUE
    /\ srv = InitialServer
    /\ procs = EmptyBag
    /\ rejected = {}
    /\ askCount = 0
    /\ colorInput = IdleColorInput
    /\ colorOutput = NoColors
    /\ highlights = <<>>
    /\ highlightedSourceIds = <<>>
    /\ documentContent = NoDoc
    /\ currentPage = 1
    /\ itemsPerPage = LinesPerPage
    /\ showHighlights = TRUE
    /\ lastClicked = NoClick
    /\ retryConfig = UploadRetryConfig
    /\ retryPc = "idle"
    /\ attempt = 0
    /\ retryState = InitialRetryState
    /\ uploadInput = NoUpload
    /\ uploadState = InitialUploadState
    /\ uploadRequests = 0
    /\ lastFailure = ""
    /\ waits = <<>>
    /\ documentStructure = NoStructure
    /\ pdfSources = <<>>
    /\ pdfResult = NoPdfResult

ViewerSpec == ViewerSpecInit /\ [][ViewerNext]_vars

ManagerSpec == ViewerSpecInit /\ [][ManagerNext]_vars

RetrySpecInit ==
    /\ sessionState = InitialSessionState
    /\ fileId = ""
    /\ isInitializing = TRUE
    /\ sessionCreatedRef = FALSE
    /\ uploadedFile = ""
    /\ showHistory = FALSE
    /\ historySessions = [sessions |-> {}, isLoading |-> FALSE, requested |-> FALSE]
    /\ pageMounted = TRUE
    /\ srv = InitialServer
    /\ procs = EmptyBag
    /\ rejected = {}
    /\ askCount = 0
    /\ colorInput = IdleColorInput
    /\ colorOutput = NoColors
    /\ highlights = <<>>
    /\ highlightedSourceIds = <<>>
    /\ documentContent = NoDoc
    /\ currentPage = 1
    /\ itemsPerPage = LinesPerPage
    /\ showHighlights = TRUE
    /\ lastClicked = NoClick
    /\ retryConfig \in RetryConfigs
    /\ retryPc = "idle"
    /\ attempt = 0
    /\ retryState = InitialRetryState
    /\ uploadInput = NoUpload
    /\ uploadState = InitialUploadState
    /\ uploadRequests = 0
    /\ lastFailure = ""
    /\ waits = <<>>
    /\ documentStructure = NoStructure
    /\ pdfSources = <<>>
    /\ pdfResult = NoPdfResult

RetrySpec == RetrySpecInit /\ [][RetryNext]_vars

\* Every request settles and every backoff timer fires.
RetryFairSpec ==
    /\ RetrySpecInit
    /\ [][RetryNext]_vars
    /\ WF_vars(operation_resolved \/ \E kind \in FailureKinds : operation_rejected(kind))
    /\ WF_vars(retry_nextAttempt)

PdfSpecInit ==
    /\ sessionState = InitialSessionState
    /\ fileId = ""
    /\ isInitializing = TRUE
    /\ sessionCreatedRef = FALSE
    /\ uploadedFile = ""
    /\ showHistory = FALSE
    /\ historySessions = [sessions |-> {}, isLoading |-> FALSE, requested |-> FALSE]
    /\ pageMounted = TRUE
    /\ srv = InitialServer
    /\ procs = EmptyBag
    /\ rejected = {}
    /\ askCount = 0
    /\ colorInput = IdleColorInput
    /\ colorOutput = NoColors
    /\ highlights = <<>>
    /\ highlightedSourceIds = <<>>
    /\ documentContent = NoDoc
    /\ currentPage = 1
    /\ itemsPerPage = LinesPerPage
    /\ showHighlights = TRUE
    /\ lastClicked = NoClick
    /\ retryConfig = UploadRetryConfig
    /\ retryPc = "idle"
    /\ attempt = 0
    /\ retryState = InitialRetryState
    /\ uploadInput = NoUpload
    /\ uploadState = InitialUploadState
    /\ uploadRequests = 0
    /\ lastFailure = ""
    /\ waits = <<>>
    /\ documentStructure \in Structures
    /\ pdfSources \in PdfSourceLists
    /\ pdfResult = NoPdfResult

PdfSpec == PdfSpecInit /\ [][PdfNext]_vars

(***************************************************************************)
(* Claims about the QA session (SessionSpec)                               *)
(***************************************************************************)
\* The ask requests (POST /qa/ask) in flight for session s.
AsksInFlight(s) ==
    {p \in Pending : p.kind = "ask" /\ p.stage = "ask" /\ p.sid = s}

\* C1: at most one ask request per session is in flight from the client at any
\* time, under any interleaving of send, load session, delete session and new
\* session.
C1_OneAskInFlightPerSession ==
    \A s \in SessionIds :
        /\ Cardinality(AsksInFlight(s)) <= 1
        /\ \A p \in AsksInFlight(s) : CopiesIn(p, procs) <= 1

\* C2: whenever askQuestion rejects, neither the user message nor the assistant
\* message of that call has been appended to the session's history.
C2_RejectedAskAppendedNothing ==
    \A r \in rejected : ~r.appended

(***************************************************************************)
(* Claims about the colour function (ColorSpec)                            *)
(***************************************************************************)
\* The totalSources values the callers pass: the length of a source list
\* (chat list, PDF correlator) and the highlight manager's 10.
CallerTotals == (1 .. MaxShown) \cup {ManagerTotal}

ComputedColors == {colorOutput.chat, colorOutput.manager, colorOutput.pdf} \ {""}

\* C3: the colour of a source id is the same whatever totalSources its caller
\* passes, that is, however many other sources are shown.
C3_ColorIsFunctionOfIdAlone ==
    \A c \in ComputedColors : \A t \in CallerTotals :
        c = getHighlightColorBySourceId(colorInput.sourceId, t)

(***************************************************************************)
(* Claims about the highlight manager (ManagerSpec)                        *)
(***************************************************************************)
WithoutIndex(seq, i) == SubSeq(seq, 1, i - 1) \o SubSeq(seq, i + 1, Len(seq))

\* C4: a click on a source never changes the colour or the range of a
\* highlight that stays displayed, and a click that removes a displayed source
\* removes exactly that one highlight and leaves the others as they were.
C4_ToggleLeavesOthersUnchanged ==
    [][/\ \A h \in Elems(highlights) :
              (\E g \in Elems(highlights') : g.id = h.id) => h \in Elems(highlights')
       /\ lastClicked' = "remove" =>
              \E i \in 1 .. Len(highlights) : highlights' = WithoutIndex(highlights, i)
       /\ lastClicked' = "add" =>
              \E h \in Elems(highlights') : highlights' = Append(highlights, h)]_vars

\* A source was toggled off while another source stays displayed.
C4_Witness ==
    /\ lastClicked = "remove"
    /\ Len(highlights) >= 1

(***************************************************************************)
(* Claims about the plain-text viewer (ViewerSpec)                         *)
(***************************************************************************)
\* The visible window [WindowStart, WindowEnd) of the document, in characters.
WindowText == getPaginatedContent.content
WindowStart == startCharIndex
WindowEnd == startCharIndex + Len(WindowText)

Rendering == documentContent.loaded /\ showHighlights /\ highlights # <<>>

Intersects(h) == h.startIndex < WindowEnd /\ h.endIndex > WindowStart

\* C5: every reference whose [start_index, end_index) intersects the visible
\* window is kept by the visibility filter, a reference that starts before
\* the window included.
C5_IntersectingReferencesKept ==
    Rendering =>
        \A h \in Elems(highlights) :
            Intersects(h) => h \in Elems(visibleHighlights(WindowText))

ClipStart(h) == Max(0, h.startIndex - WindowStart)
ClipEnd(h) == Min(Len(WindowText), h.endIndex - WindowStart)
ClipOk(h) == 0 <= ClipStart(h) /\ ClipStart(h) < ClipEnd(h) /\ ClipEnd(h) <= Len(WindowText)
Clipped(h) == [h EXCEPT !.startIndex = ClipStart(h), !.endIndex = ClipEnd(h)]

\* C6: every reference kept for the window is clipped to
\* max(0, start_index - w_start) and min(window_length, end_index - w_start),
\* a reference whose clipped span is empty or invalid is dropped, and every
\* rendered highlight span satisfies 0 <= start < end <= window_length.
C6_ClippedToWindow ==
    Rendering =>
        /\ Elems(adjustedHighlights(WindowText)) =
               {Clipped(h) : h \in {k \in Elems(visibleHighlights(WindowText)) : ClipOk(k)}}
        /\ \A seg \in Elems(RenderedHighlights) :
               /\ 0 <= seg.start /\ seg.start < seg.end /\ seg.end <= Len(WindowText)
               /\ \E h \in Elems(highlights) :
                      /\ h.id = seg.id
                      /\ seg.start = ClipStart(h)
                      /\ seg.end = ClipEnd(h)

\* A rendered highlight whose reference runs past the end of the window.
C6_Witness ==
    /\ Rendering
    /\ \E seg \in Elems(RenderedHighlights) : \E h \in Elems(highlights) :
           /\ h.id = seg.id
           /\ h.endIndex > WindowEnd
           /\ seg.end = Len(WindowText)

\* C7: the highlighted spans rendered for the window do not overlap and
\* appear in ascending order of their start, whatever the displayed sources.
C7_RenderedSpansDisjoint ==
    \A i, j \in 1 .. Len(RenderedHighlights) :
        i < j => RenderedHighlights[i].end <= RenderedHighlights[j].start

\* C8: once a click on a source has added its highlight, the viewport is on
\* the window that contains the source's first character.
C8_SelectionMovesViewport ==
    (lastClicked = "add" /\ documentContent.loaded) =>
        LET h == highlights[Len(highlights)]
        IN  WindowStart <= h.startIndex /\ h.startIndex <= WindowEnd

(***************************************************************************)
(* Claims about the retry policy (RetrySpec, RetryFairSpec)                *)
(***************************************************************************)
\* C9: an upload request that failed with a validation error is not sent
\* again: the failure ends the upload, which then shows the error.
C9_ValidationErrorNotRetried ==
    lastFailure = "validation" => retryPc \in {"failed", "idle"}

\* C10: retry() never sends more than maxAttempts + 1 requests, the waits it
\* inserts sum to at most maxAttempts * maxDelay, and a call in progress
\* ends in success or in the report of the failure.
C10_RetryBounded ==
    /\ [](/\ uploadRequests <= retryConfig.maxAttempts + 1
          /\ Len(waits) <= retryConfig.maxAttempts
          /\ Sum(waits) <= retryConfig.maxAttempts * retryConfig.maxDelay)
    /\ (retryPc = "calling" ~> retryPc \in {"succeeded", "failed"})

\* The operation failed on every attempt and retry() gave up.
C10_Witness ==
    /\ retryPc = "failed"
    /\ retryConfig.maxAttempts >= 2
    /\ uploadRequests = retryConfig.maxAttempts + 1
    /\ Len(waits) = retryConfig.maxAttempts

\* The n-th power of the multiplier, by repeated multiplication from the left.
RECURSIVE Times(_, _, _)
Times(x, k, n) == IF n = 0 THEN x ELSE Times(x * k, k, n - 1)

\* C11: the wait inserted after failed attempt n (from 0) is exactly
\* min(baseDelay * backoffMultiplier^n, maxDelay); the waits never decrease,
\* never exceed maxDelay, and no wait follows the final attempt.
C11_BackoffDelays ==
    /\ \A i \in 1 .. Len(waits) :
           /\ waits[i] = Min(Times(retryConfig.baseDelay, retryConfig.backoffMultiplier, i - 1),
                             retryConfig.maxDelay)
           /\ waits[i] <= retryConfig.maxDelay
           /\ i > 1 => waits[i - 1] <= waits[i]
    /\ retryPc = "waiting" => Len(waits) = uploadRequests
    /\ retryPc \in {"calling", "failed", "succeeded"} => Len(waits) = uploadRequests - 1
    /\ retryPc = "failed" => Len(waits) = retryConfig.maxAttempts

\* retry() gave up after three waits, the first two growing and the third
\* capped at maxDelay.
C11_Witness ==
    /\ retryPc = "failed"
    /\ Len(waits) = 3
    /\ waits[1] < waits[2]
    /\ waits[3] = retryConfig.maxDelay
    /\ retryConfig.baseDelay * retryConfig.backoffMultiplier * retryConfig.backoffMultiplier
           > retryConfig.maxDelay

(***************************************************************************)
(* Claims about the upload's processing steps (RetrySpec)                  *)
(***************************************************************************)
StepNames ==
    [i \in 1 .. Len(uploadState.processingSteps) |-> uploadState.processingSteps[i].name]

StepAt(name) == {i \in 1 .. Len(StepNames) : StepNames[i] = name}

\* C12: the processing steps of an upload contain 'Generating embeddings' and
\* 'Storing in vector database' if and only if the study mode is qa, always
\* after 'Chunking content' and before 'Finalizing'; the other modes go from
\* chunking directly to finalizing.
C12_StepsByStudyMode ==
    uploadState.processingSteps # <<>> =>
        /\ Cardinality(StepAt("Chunking content")) = 1
        /\ Cardinality(StepAt("Finalizing")) = 1
        /\ StepAt("Generating embeddings") # {} <=> uploadInput.studyMode = "qa"
        /\ StepAt("Storing in vector database") # {} <=> uploadInput.studyMode = "qa"
        /\ \A i \in StepAt("Generating embeddings") \cup StepAt("Storing in vector database") :
               /\ \E j \in StepAt("Chunking content") : j < i
               /\ \E k \in StepAt("Finalizing") : i < k
        /\ uploadInput.studyMode # "qa" =>
               \A j \in StepAt("Chunking content") : (j + 1) \in StepAt("Finalizing")

\* A quiz upload has completed: its steps go from chunking to finalizing.
C12_Witness ==
    /\ retryPc = "succeeded"
    /\ uploadInput.studyMode = "quiz"
    /\ Len(uploadState.processingSteps) = 4
    /\ \A i \in 1 .. 4 : uploadState.processingSteps[i].status = "completed"

(***************************************************************************)
(* Claims about the paged (PDF) correlation (PdfSpec)                      *)
(***************************************************************************)
\* The pages whose span [start_index, end_index) contains a position.
PagesContaining(position) ==
    IF ~documentStructure.has_pages THEN {}
    ELSE {page \in Elems(documentStructure.pages) :
              page.start_index <= position /\ position < page.end_index}

PagesNumbered(pageNumber) ==
    IF ~documentStructure.has_pages THEN {}
    ELSE {page \in Elems(documentStructure.pages) : page.page_number = pageNumber}

\* One rectangle per text block of the page whose text contains the prefix.
RectanglesOn(page, source, prefixLength) ==
    LET Match(block) == Includes(block.text, Substring(source.text, prefixLength))
        blocks == SelectSeq(page.text_blocks, Match)
    IN  [i \in 1 .. Len(blocks) |->
            [pageIndex |-> page.page_number - 1,
             left |-> blocks[i].bbox[1],
             top |-> blocks[i].bbox[2],
             width |-> blocks[i].bbox[3] - blocks[i].bbox[1],
             height |-> blocks[i].bbox[4] - blocks[i].bbox[2],
             color |-> getHighlightColorBySourceId(source.id, Len(pdfSources)),
             opacity |-> "0.4"]]

RectanglesOf(pages, source, prefixLength) ==
    IF pages = {} THEN <<>>
    ELSE LET page == CHOOSE q \in pages : TRUE
         IN  IF page.has_text_blocks THEN RectanglesOn(page, source, prefixLength) ELSE <<>>

RECURSIVE ExpectedByOffset(_)
ExpectedByOffset(sources) ==
    IF sources = <<>> THEN <<>>
    ELSE (IF Head(sources).has_offsets
          THEN RectanglesOf(PagesContaining(Head(sources).start_index), Head(sources),
                            SourceRefPrefix)
          ELSE <<>>)
         \o ExpectedByOffset(Tail(sources))

RECURSIVE ExpectedByPageNumber(_)
ExpectedByPageNumber(sources) ==
    IF sources = <<>> THEN <<>>
    ELSE RectanglesOf(PagesNumbered(Head(sources).page_number), Head(sources),
                      PyMuPDFPrefix)
         \o ExpectedByPageNumber(Tail(sources))

\* C13: in paged mode each source yields exactly one rectangle per text block
\* of its page whose text contains the source's text prefix, with
\* pageIndex = page_number - 1, width = x1 - x0, height = y1 - y0, the
\* source's colour and opacity 0.4; a source whose page is not found or has
\* no text blocks yields none.
C13_RectanglePerMatchingBlock ==
    /\ pdfResult.call = "createHighlightsFromSourceReferences" =>
           pdfResult.highlights = ExpectedByOffset(pdfSources)
    /\ pdfResult.call = "createHighlightsFromPyMuPDFData" =>
           pdfResult.highlights = ExpectedByPageNumber(pdfSources)

\* C14: a lookup returns the unique page p with
\* p.start_index <= position < p.end_index, null if there is none; a position
\* on the boundary shared by pages n and n+1 maps to page n+1.
C14_PageLookupHalfOpen ==
    pdfResult.call = "getPageForPosition" =>
        /\ \A page \in PagesContaining(pdfResult.position) :
               pdfResult.page = page.page_number
        /\ PagesContaining(pdfResult.position) = {} => pdfResult.page = 0

(***************************************************************************)
(* Further claims about the QA session (SessionSpec)                       *)
(***************************************************************************)
ActiveSessionId == sessionState.session.session_id

\* C15: when a session other than the active one has been deleted from the
\* history list, the active session, its messages and isAsking are as before.
C15_DeleteOtherKeepsActive ==
    [][\A s \in SessionIds :
           (/\ pageMounted
            /\ s \in historySessions.sessions
            /\ s \notin historySessions'.sessions
            /\ ActiveSessionId \notin {"", s})
           => /\ sessionState'.session = sessionState.session
              /\ sessionState'.isAsking = sessionState.isAsking]_vars

\* C16: when the reload that ends an ask on session A completes after the
\* user has switched to session B, the active session stays B.
C16_AskCompletionKeepsSwitchedSession ==
    [][\A p \in Pending :
           (/\ pageMounted
            /\ p.kind = "ask"
            /\ p.stage = "reload"
            /\ procs' = Finish(p)
            /\ ActiveSessionId \notin {"", p.sid})
           => sessionState'.session.session_id = ActiveSessionId]_vars

\* C17: whenever a session is active, the document shown in the document
\* viewer is the document of that session.
C17_ViewerShowsSessionDocument ==
    (pageMounted /\ sessionState.session # NoSession /\ fileId # "") =>
        fileId = sessionState.session.file_id

AskPending == {p \in Pending : p.kind = "ask"}

\* C18: isAsking is true only while an askQuestion call has a request in flight,
\* and the step that settles an askQuestion call (the ask request fails, or the
\* reload that follows it succeeds or fails) leaves isAsking = FALSE; on the two
\* failure paths it also leaves an error to show.
C18_AskSettlesNotAsking ==
    /\ []((pageMounted /\ sessionState.isAsking) => AskPending # {})
    /\ [][\A p \in AskPending :
              (pageMounted /\ procs' = Finish(p))
              => /\ ~sessionState'.isAsking
                 /\ p.stage = "ask" => sessionState'.error
                 /\ rejected' # rejected => sessionState'.error
                 /\ p.stage = "reload" =>
                        \/ sessionState'.error
                        \/ sessionState'.session = ServerSession(p.sid)]_vars

\* Both failure paths have been taken, and the input is enabled again.
C18_Witness ==
    /\ \E r \in rejected : r.appended
    /\ \E r \in rejected : ~r.appended
    /\ AskPending = {}
    /\ sessionState.error
    /\ InputEnabled
(***************************************************************************)
(* Claims about navigation to a highlight (ViewerSpec)                     *)
(***************************************************************************)
\* The line of the document that holds the character at an offset (a newline
\* belongs to the line it ends), and the page that shows that line.
LineOf(offset) ==
    1 + Cardinality({i \in 1 .. Min(offset, Len(documentContent.full_text)) :
                        documentContent.full_text[i] = NL})
PageOf(offset) == CeilDiv(LineOf(offset), itemsPerPage)

\* The offset lies in the window of some page: it is a character of the
\* document other than the newline between two pages.
InSomeWindow(offset) ==
    /\ offset < Len(documentContent.full_text)
    /\ ~(/\ documentContent.full_text[offset + 1] = NL
         /\ LineOf(offset) % itemsPerPage = 0)

InWindow(offset) == WindowStart <= offset /\ offset < WindowEnd

\* C19: a click on a highlight rendered on the current page leaves the
\* viewer on that page, the page whose window holds the highlight's start.
C19_ClickKeepsPage ==
    [][lastClicked' = "span" => currentPage' = currentPage]_vars

\* The starts of the highlights that lie in the window of some page.
HighlightStarts ==
    {h.startIndex : h \in {g \in Elems(highlights) : InSomeWindow(g.startIndex)}}

\* The marker next to "Page n of m": getPagesWithHighlights().has(currentPage)
MarkerShown == \E h \in Elems(highlights) : targetPage(h) = currentPage

\* C20: right after "Jump to Highlight" the viewer is on the lowest page
\* whose window holds the start of a highlight, so a highlight starts in the
\* visible window; and the page marker is shown exactly on the pages whose
\* window holds the start of a highlight.
C20_JumpShowsFirstHighlight ==
    (documentContent.loaded /\ HighlightStarts # {}) =>
        /\ lastClicked = "jump" =>
               /\ \E o \in HighlightStarts : InWindow(o)
               /\ \A o \in HighlightStarts : currentPage <= PageOf(o)
        /\ (\A h \in Elems(highlights) : InSomeWindow(h.startIndex)) =>
               (MarkerShown <=> \E o \in HighlightStarts : InWindow(o))
(***************************************************************************)
(* Claims about the rendered page (ViewerSpec)                             *)
(***************************************************************************)
\* The text the rendered runs show, one after the other.
RECURSIVE RunsText(_, _)
RunsText(runs, text) ==
    IF runs = <<>> THEN <<>>
    ELSE Slice(text, Head(runs).start, Head(runs).end) \o RunsText(Tail(runs), text)

\* C21: the runs rendered for the window, highlighted and not, read in order
\* give the window text exactly: no character is shown twice or left out.
C21_RunsCoverWindowOnce ==
    documentContent.loaded => RunsText(Rendered, WindowText) = WindowText
\* C22: on every page and for every lines-per-page setting, the page content
\* is the part of full_text that starts at startCharIndex.
C22_StartCharIndexIsPageOffset ==
    documentContent.loaded =>
        WindowText = Slice(documentContent.full_text, startCharIndex,
                           startCharIndex + Len(WindowText))

\* A later page with text on it.
C22_Witness ==
    /\ documentContent.loaded
    /\ currentPage > 1
    /\ currentPage <= getPaginatedContent.totalPages
    /\ \E i \in 1 .. Len(WindowText) : WindowText[i] = "a"
    /\ \E i \in 1 .. startCharIndex : documentContent.full_text[i] = "a"
\* C23: with a document loaded, the current page is one of the document's
\* pages whatever buttons and highlights were clicked, and a change of the
\* lines-per-page setting puts the viewer on page 1.
C23_CurrentPageInRange ==
    /\ [](documentContent.loaded =>
              (1 <= currentPage /\ currentPage <= getPaginatedContent.totalPages))
    /\ [][itemsPerPage' # itemsPerPage => currentPage' = 1]_vars

\* A jump or a click on a highlight has put the viewer on the last of several pages.
C23_Witness ==
    /\ documentContent.loaded
    /\ lastClicked \in {"jump", "span"}
    /\ currentPage > 1
    /\ currentPage = getPaginatedContent.totalPages
(***************************************************************************)
(* Further claims about the highlight colour (ColorSpec)                   *)
(***************************************************************************)
\* C24: once a source has both its button under the chat message and its
\* highlight in the viewer, the two have the same colour.
C24_HighlightColorIsButtonColor ==
    (colorOutput.chat # "" /\ colorOutput.manager # "") =>
        colorOutput.manager = colorOutput.chat
(***************************************************************************)
(* Further claims about the retry policy (RetrySpec)                       *)
(***************************************************************************)
\* C25: one call of retry() invokes the operation at most maxAttempts times,
\* so one uploadFile call sends at most maxAttempts upload requests, and none
\* after a request has succeeded.
C25_AtMostMaxAttemptsRequests ==
    /\ retryConfig.maxAttempts >= 1 => uploadRequests <= retryConfig.maxAttempts
    /\ retryPc = "succeeded" => uploadRequests = attempt + 1
\* C26: when every attempt has failed, the number of attempts in the error
\* message "Upload failed after N attempts" is the number of upload requests
\* that were sent.
C26_ErrorReportsAttemptsMade ==
    retryPc = "failed" =>
        /\ uploadState.error
        /\ uploadState.errorAttempts = uploadRequests
====
